---------------------------- MODULE Spec2Model ----------------------------
(***************************************************************************)
(* Model of the FIRE calculator's projection engine (annuity solver,       *)
(* depletion simulators, accumulation simulator, CSV export).              *)
(*                                                                         *)
(* Numbers.  A JavaScript Number is modelled as an extended rational       *)
(* <<n, d>> in lowest terms: d > 0 is the finite value n/d, <<1, 0>> is    *)
(* +Infinity, <<-1, 0>> is -Infinity and <<0, 0>> is NaN.  Arithmetic is   *)
(* exact: the rounding of IEEE doubles and overflow of huge finite values  *)
(* are not modelled, division by zero and the propagation of Infinity and  *)
(* NaN are.  Zero is unsigned: every divisor of the engine is 1 + r, which *)
(* IEEE evaluates to +0 when r = -1, so -0 never reaches a division.       *)
(***************************************************************************)
EXTENDS Integers, Sequences, FiniteSets, TLC

\* fn, args: the function called and its arguments; pc: "call" before the call,
\* "done" once it has returned; ret: the value returned
VARIABLES fn, args, pc, ret
\* the locals of the running while loop of simulateUntilDepleted
VARIABLES y, principal, rows

\* the App component: ui holds its useState values, memo its useMemo cells
\* (each the dependencies it was computed under and its value)
VARIABLES ui, memo

callVars == <<fn, args, pc, ret>>

loopVars == <<y, principal, rows>>

appVars == <<ui, memo>>

vars == <<fn, args, pc, ret, y, principal, rows, ui, memo>>

----------------------------------------------------------------------------
(* Bounds of the model *)

\* largest horizon (years / N / maxYears given explicitly) drawn as an input
MaxN == 3
\* largest first withdrawal / expense0 drawn as an input
MaxW == 2
\* largest starting principal drawn as an input
MaxP == 3
\* largest horizon of the accumulation simulator drawn as an input
MaxCompYears == 2
\* most months a balance is compounded at a positive rate (the balance doubles
\* each month at the one positive rate drawn)
MaxGrowthMonths == 24
\* longest text of a CSV field drawn as an input
MaxStrLen == 1

----------------------------------------------------------------------------
(* Number arithmetic *)

\* the element of a one-element set.  Only({e(x) : x \in {operand}}) is e of the
\* operand with the operand evaluated once and bound to its value (an operand
\* is an expression that an operator would otherwise re-evaluate at each use)
Only(S) == CHOOSE v \in S : TRUE

AbsInt(i) == IF i < 0 THEN -i ELSE i

SignInt(i) == IF i < 0 THEN -1 ELSE IF i > 0 THEN 1 ELSE 0

RECURSIVE GCD(_, _)
GCD(a, b) == IF b = 0 THEN a ELSE Only({GCD(b, z) : z \in {a % b}})

\* the Number n/d in lowest terms; d = 0 gives an Infinity or NaN
NumV(n, d) ==
  IF d = 0 THEN <<SignInt(n), 0>>
  ELSE LET k == GCD(AbsInt(n), AbsInt(d))
       IN  IF d < 0 THEN <<-(n \div k), -(d \div k)>> ELSE <<n \div k, d \div k>>

Num(n, d) == Only({NumV(x, z) : x \in {n}, z \in {d}})

Whole(i) == <<i, 1>>

Zero == <<0, 1>>

One == <<1, 1>>

NaN == <<0, 0>>

PosInf == <<1, 0>>

NegInf == <<-1, 0>>

IsNaN(a) == a = NaN

IsFinite(a) == a[2] # 0

NegV(a) == <<-a[1], a[2]>>

Neg(a) == Only({NegV(z) : z \in {a}})

AbsV(a) == <<AbsInt(a[1]), a[2]>>

Abs(a) == Only({AbsV(z) : z \in {a}})

\* a + b: Infinity + -Infinity and anything with NaN are NaN
AddV(a, b) ==
  IF IsNaN(a) \/ IsNaN(b) THEN NaN
  ELSE IF a[2] = 0 /\ b[2] = 0 THEN (IF a = b THEN a ELSE NaN)
  ELSE IF a[2] = 0 THEN a
  ELSE IF b[2] = 0 THEN b
  ELSE Num(a[1] * b[2] + b[1] * a[2], a[2] * b[2])

Add(a, b) == Only({AddV(x, z) : x \in {a}, z \in {b}})

Sub(a, b) == Add(a, Neg(b))

\* a * b: 0 * Infinity is NaN
MulV(a, b) == Num(a[1] * b[1], a[2] * b[2])

Mul(a, b) == Only({MulV(x, z) : x \in {a}, z \in {b}})

\* a / b: x / 0 is an Infinity of the sign of x, 0 / 0 and Inf / Inf are NaN
DivV(a, b) ==
  IF IsNaN(a) \/ IsNaN(b) THEN NaN
  ELSE Mul(a, Num(b[2], b[1]))

Div(a, b) == Only({DivV(x, z) : x \in {a}, z \in {b}})

\* a < b, false when either is NaN
LtV(a, b) ==
  IF IsNaN(a) \/ IsNaN(b) THEN FALSE
  ELSE IF a[2] = 0 /\ b[2] = 0 THEN a[1] < b[1]
  ELSE a[1] * b[2] < b[1] * a[2]

Lt(a, b) == Only({LtV(x, z) : x \in {a}, z \in {b}})

Gt(a, b) == Lt(b, a)

\* a <= b, false when either is NaN
LeV(a, b) == ~IsNaN(a) /\ ~IsNaN(b) /\ ~LtV(b, a)

Le(a, b) == Only({LeV(x, z) : x \in {a}, z \in {b}})

Ge(a, b) == Le(b, a)

\* Math.pow(a, k) for an integer k >= 0; Math.pow(x, 0) is 1 for every x;
\* by repeated squaring; every positive power of 1 is 1 and of 0 is 0
RECURSIVE PowV(_, _)
PowV(a, k) ==
  IF k <= 0 THEN One
  ELSE IF a = One \/ a = Zero THEN a
  ELSE IF k % 2 = 0 THEN Only({Mul(h, h) : h \in {PowV(a, k \div 2)}})
  ELSE Mul(a, PowV(a, k - 1))

Pow(a, k) == Only({PowV(x, k) : x \in {a}})

\* Math.max(a, b): NaN when either argument is NaN
MathMaxV(a, b) ==
  IF IsNaN(a) \/ IsNaN(b) THEN NaN
  ELSE IF LtV(a, b) THEN b ELSE a

MathMax(a, b) == Only({MathMaxV(x, z) : x \in {a}, z \in {b}})

\* the threshold 1e-9 of the solver is 1 / EpsDen
EpsDen == 1000000000

\* x < 1e-9 for x >= 0, computed without forming x.n * 10^9
LtEpsV(x) ==
  /\ IsFinite(x)
  /\ \/ x[1] = 0
     \/ x[1] > 0 /\ EpsDen <= (x[2] - 1) \div x[1]

LtEps(x) == Only({LtEpsV(z) : z \in {x}})

\* Math.abs(a - b) <= eps
almostEqual(a, b, eps) == Le(Abs(Sub(a, b)), eps)

----------------------------------------------------------------------------
(* Annuity solver *)

\* requiredPrincipalByFormula without the begin-timing factor
requiredPrincipalByFormulaTimingIgnored(a) ==
  IF a.N <= 0 THEN Zero
  ELSE
    LET pv0 == IF LtEps(Abs(Sub(a.r, a.g)))
               THEN Div(Mul(a.firstWithdrawal, Whole(a.N)), Add(One, a.r))
               ELSE LET ratio == Pow(Div(Add(One, a.g), Add(One, a.r)), a.N)
                    IN  Div(Mul(a.firstWithdrawal, Sub(One, ratio)), Sub(a.r, a.g))
    IN  MathMax(Zero, pv0)

\* requiredPrincipalByFormula returning early only for N < 0
requiredPrincipalByFormulaGuardBelowZero(a) ==
  IF a.N < 0 THEN Zero
  ELSE
    LET pv0 == IF LtEps(Abs(Sub(a.r, a.g)))
               THEN Div(Mul(a.firstWithdrawal, Whole(a.N)), Add(One, a.r))
               ELSE LET ratio == Pow(Div(Add(One, a.g), Add(One, a.r)), a.N)
                    IN  Div(Mul(a.firstWithdrawal, Sub(One, ratio)), Sub(a.r, a.g))
        pv  == IF a.timing = "begin" THEN Mul(pv0, Add(One, a.r)) ELSE pv0
    IN  MathMax(Zero, pv)

\* limitingCase testing |r - g| <= 1e-9
limitingCaseAtMost(a) ==
  LtEps(Abs(Sub(a.r, a.g))) \/ Abs(Sub(a.r, a.g)) = Num(1, EpsDen)

\* the test that selects the limiting-case branch
limitingCase(a) == LtEps(Abs(Sub(a.r, a.g)))

requiredPrincipalByFormula(a) ==
  IF a.N <= 0 THEN Zero
  ELSE
    LET pv0 == IF limitingCase(a)
               THEN Div(Mul(a.firstWithdrawal, Whole(a.N)), Add(One, a.r))
               ELSE LET ratio == Pow(Div(Add(One, a.g), Add(One, a.r)), a.N)
                    IN  Div(Mul(a.firstWithdrawal, Sub(One, ratio)), Sub(a.r, a.g))
        pv  == IF a.timing = "begin" THEN Mul(pv0, Add(One, a.r)) ELSE pv0
    IN  MathMax(Zero, pv)

----------------------------------------------------------------------------
(* Fixed-horizon depletion simulator *)

\* simulateCashflowStep with begin-timing growth earned on the balance before
\* the withdrawal
simulateCashflowStepGrowthOnOpening(a, yy, p) ==
  LET expense == Mul(a.expense0, Pow(Add(One, a.g), yy - 1))
      growth  == Mul(p, a.r)
  IN  [year |-> yy, expense |-> expense, growth |-> growth,
       endPrincipal |-> Sub(Add(p, growth), expense)]

\* the body of the loop not taking the withdrawal out of the principal
simulateCashflowStepExpenseKept(a, yy, p) ==
  LET expense == Mul(a.expense0, Pow(Add(One, a.g), yy - 1))
  IN  IF a.timing = "end"
      THEN LET growth == Mul(p, a.r)
           IN  [year |-> yy, expense |-> expense, growth |-> growth,
                endPrincipal |-> Add(p, growth)]
      ELSE LET growth == Mul(p, a.r)
           IN  [year |-> yy, expense |-> expense, growth |-> growth,
                endPrincipal |-> Add(p, growth)]

\* the body of the loop with the branches of the two timings exchanged
simulateCashflowStepTimingSwapped(a, yy, p) ==
  LET expense == Mul(a.expense0, Pow(Add(One, a.g), yy - 1))
  IN  IF a.timing = "begin"
      THEN LET growth == Mul(p, a.r)
           IN  [year |-> yy, expense |-> expense, growth |-> growth,
                endPrincipal |-> Sub(Add(p, growth), expense)]
      ELSE LET p1     == Sub(p, expense)
               growth == Mul(p1, a.r)
           IN  [year |-> yy, expense |-> expense, growth |-> growth,
                endPrincipal |-> Add(p1, growth)]

\* one pass of the body of the for loop of simulateCashflow
simulateCashflowStep(a, yy, p) ==
  LET expense == Mul(a.expense0, Pow(Add(One, a.g), yy - 1))
  IN  IF a.timing = "end"
      THEN LET growth == Mul(p, a.r)
           IN  [year |-> yy, expense |-> expense, growth |-> growth,
                endPrincipal |-> Sub(Add(p, growth), expense)]
      ELSE LET p1     == Sub(p, expense)
               growth == Mul(p1, a.r)
           IN  [year |-> yy, expense |-> expense, growth |-> growth,
                endPrincipal |-> Add(p1, growth)]

\* simulateCashflowLoop leaving the loop once the principal is <= 0
RECURSIVE simulateCashflowLoopStopsWhenDepleted(_, _, _, _)
simulateCashflowLoopStopsWhenDepleted(a, yy, p, acc) ==
  IF yy <= a.years /\ (yy = 1 \/ Gt(p, Zero))
  THEN LET rec == simulateCashflowStep(a, yy, p)
       IN  simulateCashflowLoopStopsWhenDepleted(a, yy + 1, rec.endPrincipal,
                                                 Append(acc, rec))
  ELSE acc

\* simulateCashflowLoop numbering its records from 0
RECURSIVE simulateCashflowLoopYearFromZero(_, _, _, _)
simulateCashflowLoopYearFromZero(a, yy, p, acc) ==
  IF yy <= a.years
  THEN LET rec == simulateCashflowStep(a, yy, p)
       IN  simulateCashflowLoopYearFromZero(a, yy + 1, rec.endPrincipal,
             Append(acc, [rec EXCEPT !.year = yy - 1]))
  ELSE acc

\* simulateCashflowLoop testing its condition after the body of year 1
RECURSIVE simulateCashflowLoopAtLeastOnce(_, _, _, _)
simulateCashflowLoopAtLeastOnce(a, yy, p, acc) ==
  IF yy <= a.years \/ yy = 1
  THEN LET rec == simulateCashflowStep(a, yy, p)
       IN  simulateCashflowLoopAtLeastOnce(a, yy + 1, rec.endPrincipal,
                                           Append(acc, rec))
  ELSE acc

RECURSIVE simulateCashflowLoop(_, _, _, _)
simulateCashflowLoop(a, yy, p, acc) ==
  IF yy <= a.years
  THEN LET rec == simulateCashflowStep(a, yy, p)
       IN  simulateCashflowLoop(a, yy + 1, rec.endPrincipal, Append(acc, rec))
  ELSE acc

simulateCashflow(a) == simulateCashflowLoop(a, 1, a.initialPrincipal, <<>>)

----------------------------------------------------------------------------
(* Run-to-depletion simulator *)

\* the default value of the parameter maxYears
DefaultMaxYears == 200

\* the parameter maxYears: the default when the caller omits it
maxYearsOf(a) == IF a.hasMaxYears THEN a.maxYears ELSE DefaultMaxYears

\* the loop condition letting one year too many through
simulateUntilDepletedCondOffByOne(yy, maxYears, p) ==
  yy <= maxYears /\ Gt(p, Zero)

\* the loop condition without the test of the principal
simulateUntilDepletedCondNoPrincipalTest(yy, maxYears, p) == yy < maxYears

\* simulateUntilDepletedCond entering the loop on any principal other than 0
simulateUntilDepletedCondNonZeroPrincipal(yy, maxYears, p) ==
  yy < maxYears /\ p # Zero

\* the loop condition asking for a principal of at least 1
simulateUntilDepletedCondAtLeastOne(yy, maxYears, p) ==
  yy < maxYears /\ Ge(p, One)

\* the condition of the while loop
simulateUntilDepletedCond(yy, maxYears, p) == yy < maxYears /\ Gt(p, Zero)

\* the body of the while loop withdrawing expense0 in every period
simulateUntilDepletedStepFlatExpense(a, yy, p) ==
  LET expense == a.expense0
  IN  IF a.timing = "end"
      THEN LET growth == Mul(p, a.r)
           IN  [year |-> yy, expense |-> expense, growth |-> growth,
                endPrincipal |-> Sub(Add(p, growth), expense)]
      ELSE LET p1     == Sub(p, expense)
               growth == Mul(p1, a.r)
           IN  [year |-> yy, expense |-> expense, growth |-> growth,
                endPrincipal |-> Add(p1, growth)]

\* one pass of the body of the while loop of simulateUntilDepleted, yy already
\* incremented
simulateUntilDepletedStep(a, yy, p) ==
  LET expense == Mul(a.expense0, Pow(Add(One, a.g), yy - 1))
  IN  IF a.timing = "end"
      THEN LET growth == Mul(p, a.r)
           IN  [year |-> yy, expense |-> expense, growth |-> growth,
                endPrincipal |-> Sub(Add(p, growth), expense)]
      ELSE LET p1     == Sub(p, expense)
               growth == Mul(p1, a.r)
           IN  [year |-> yy, expense |-> expense, growth |-> growth,
                endPrincipal |-> Add(p1, growth)]

\* one pass of the while loop from the loop state st = [y, principal, rows]:
\* the body when the condition holds, and the loop has ended when it does not
simulateUntilDepletedPass(a, st) ==
  IF simulateUntilDepletedCond(st.y, maxYearsOf(a), st.principal)
  THEN Only({[y |-> st.y + 1, principal |-> rec.endPrincipal,
              rows |-> Append(st.rows, rec)] :
             rec \in {simulateUntilDepletedStep(a, st.y + 1, st.principal)}})
  ELSE st

\* n passes of the loop, split in halves to keep the evaluation shallow
RECURSIVE simulateUntilDepletedLoop(_, _, _)
simulateUntilDepletedLoop(a, st, n) ==
  IF n <= 0 THEN st
  ELSE IF n = 1 THEN Only({simulateUntilDepletedPass(a, s0) : s0 \in {st}})
  ELSE Only({simulateUntilDepletedLoop(a, s1, n - (n \div 2)) :
             s1 \in {simulateUntilDepletedLoop(a, st, n \div 2)}})

\* the whole call, as a caller sees it: the condition fails after at most
\* maxYears passes
simulateUntilDepleted(a) ==
  Only({simulateUntilDepletedLoop(b, [y |-> 0, principal |-> b.initialPrincipal,
                                      rows |-> <<>>], maxYearsOf(b)).rows :
        b \in {a}})

----------------------------------------------------------------------------
(* Accumulation simulator *)

\* the inner loop making 11 passes
RECURSIVE simulateCompoundMonthsEleven(_, _, _, _)
simulateCompoundMonthsEleven(balance, monthlyRate, monthly, mm) ==
  IF mm < 12
  THEN simulateCompoundMonthsEleven(
         Add(Mul(balance, Add(One, monthlyRate)), monthly),
         monthlyRate, monthly, mm + 1)
  ELSE balance

\* the inner loop taking the contribution out instead of putting it in
RECURSIVE simulateCompoundMonthsWithdrawing(_, _, _, _)
simulateCompoundMonthsWithdrawing(balance, monthlyRate, monthly, mm) ==
  IF mm <= 12
  THEN simulateCompoundMonthsWithdrawing(
         Sub(Mul(balance, Add(One, monthlyRate)), monthly),
         monthlyRate, monthly, mm + 1)
  ELSE balance

\* the 12 passes of the inner for loop, m = mm..12
RECURSIVE simulateCompoundMonths(_, _, _, _)
simulateCompoundMonths(balance, monthlyRate, monthly, mm) ==
  IF mm <= 12
  THEN simulateCompoundMonths(Add(Mul(balance, Add(One, monthlyRate)), monthly),
                              monthlyRate, monthly, mm + 1)
  ELSE balance

\* the outer loop leaving once the balance is <= 0
RECURSIVE simulateCompoundLoopStopsWhenNegative(_, _, _, _, _)
simulateCompoundLoopStopsWhenNegative(a, monthlyRate, yy, balance, acc) ==
  IF yy <= a.years /\ (yy = 1 \/ Gt(balance, Zero))
  THEN LET b == simulateCompoundMonths(balance, monthlyRate, a.monthly, 1)
       IN  simulateCompoundLoopStopsWhenNegative(a, monthlyRate, yy + 1, b,
             Append(acc, [year |-> yy, expense |-> Zero, growth |-> b,
                          endPrincipal |-> b]))
  ELSE acc

\* the outer loop recording the gain of the year as growth
RECURSIVE simulateCompoundLoopGrowthAsGain(_, _, _, _, _)
simulateCompoundLoopGrowthAsGain(a, monthlyRate, yy, balance, acc) ==
  IF yy <= a.years
  THEN LET b == simulateCompoundMonths(balance, monthlyRate, a.monthly, 1)
       IN  simulateCompoundLoopGrowthAsGain(a, monthlyRate, yy + 1, b,
             Append(acc, [year |-> yy, expense |-> Zero,
                          growth |-> Sub(b, balance), endPrincipal |-> b]))
  ELSE acc

\* the outer for loop, y = yy..years
RECURSIVE simulateCompoundLoop(_, _, _, _, _)
simulateCompoundLoop(a, monthlyRate, yy, balance, acc) ==
  IF yy <= a.years
  THEN LET b == simulateCompoundMonths(balance, monthlyRate, a.monthly, 1)
       IN  simulateCompoundLoop(a, monthlyRate, yy + 1, b,
             Append(acc, [year |-> yy, expense |-> Zero, growth |-> b,
                          endPrincipal |-> b]))
  ELSE acc

simulateCompound(a) ==
  simulateCompoundLoop(a, Div(a.r, Whole(12)), 1, a.principal0, <<>>)

----------------------------------------------------------------------------
(* CSV export *)

\* a text is a sequence of characters; a cell is a text or a number
Quote == "\""

Comma == ","

Newline == "\n"

TextCell(s) == [type |-> "string", text |-> s]

NumberCell(n) == [type |-> "number", value |-> n]

DigitChars == <<"0", "1", "2", "3", "4", "5", "6", "7", "8", "9">>

\* String(n) for an integer n
RECURSIVE NumberToString(_)
NumberToString(n) ==
  IF n < 0 THEN <<"-">> \o NumberToString(-n)
  ELSE IF n < 10 THEN <<DigitChars[n + 1]>>
  ELSE NumberToString(n \div 10) \o <<DigitChars[(n % 10) + 1]>>

\* String(c): the conversion a template literal or join applies to a cell
CellToString(c) == IF c.type = "string" THEN c.text ELSE NumberToString(c.value)

\* s.replace(/"/g, '""')
RECURSIVE DoubleQuotes(_)
DoubleQuotes(s) ==
  IF s = <<>> THEN <<>>
  ELSE (IF Head(s) = Quote THEN <<Quote, Quote>> ELSE <<Head(s)>>)
         \o DoubleQuotes(Tail(s))

\* parts.join(sep)
RECURSIVE Join(_, _)
Join(parts, sep) ==
  IF parts = <<>> THEN <<>>
  ELSE IF Len(parts) = 1 THEN parts[1]
  ELSE parts[1] \o <<sep>> \o Join(Tail(parts), sep)

\* the inner function process of buildCSV: a data row
process(r) ==
  Join([i \in 1..Len(r) |->
          IF r[i].type = "string"
          THEN <<Quote>> \o DoubleQuotes(r[i].text) \o <<Quote>>
          ELSE CellToString(r[i])], Comma)

\* the header row: every cell wrapped in quotes as it is
headerLine(r) ==
  Join([i \in 1..Len(r) |-> <<Quote>> \o CellToString(r[i]) \o <<Quote>>], Comma)

\* buildCSV ending its output with a newline
buildCSVTrailingNewline(table) ==
  IF table = <<>> THEN <<>>
  ELSE Join(<<headerLine(table[1])>>
              \o [i \in 1..(Len(table) - 1) |-> process(table[i + 1])],
            Newline) \o <<Newline>>

buildCSV(table) ==
  IF table = <<>> THEN <<>>
  ELSE Join(<<headerLine(table[1])>>
              \o [i \in 1..(Len(table) - 1) |-> process(table[i + 1])],
            Newline)

----------------------------------------------------------------------------
(* Inputs *)

Timings == {"end", "begin"}

\* annual rates r and g: -200%, -100%, -50%, 0, 50%, 100%
Rates == {Whole(-2), Whole(-1), Num(-1, 2), Zero, Num(1, 2), One}

Withdrawals == {Whole(w) : w \in 0..MaxW}

Principals == {Whole(p) : p \in -1..MaxP}

Horizons == -1..MaxN

----------------------------------------------------------------------------
(* Calls of the solver and of the fixed-horizon simulator *)

\* no run of simulateUntilDepleted is in progress
LoopIdle == y = 0 /\ principal = Zero /\ rows = <<>>

NoArgs == [none |-> TRUE]

\* the App component is not mounted
AppIdle == ui = NoArgs /\ memo = NoArgs

SolverArgs ==
  [firstWithdrawal : Withdrawals, r : Rates, g : Rates, N : Horizons,
   timing : Timings]

CashflowArgs ==
  [initialPrincipal : Principals, years : Horizons, expense0 : Withdrawals,
   r : Rates, g : Rates, timing : Timings]

\* calls with r and g 0.5e-9 and 1e-9 apart, on both sides of the threshold of
\* the solver (one rate 0, one period and a withdrawal of at most 1: the powers
\* and products of other runs at these rates exceed TLC's 32-bit integers)
NearThresholdArgs ==
  {a \in [firstWithdrawal : {Zero, One},
          r : {Zero, Num(1, EpsDen), Num(1, 2 * EpsDen)},
          g : {Zero, Num(1, EpsDen), Num(1, 2 * EpsDen)},
          N : {1}, timing : {"end"}] :
     a.r = Zero \/ a.g = Zero}

InitSolver ==
  /\ AppIdle
  /\ pc = "call"
  /\ ret = <<>>
  /\ LoopIdle
  /\ \/ fn = "requiredPrincipalByFormula"
        /\ args \in SolverArgs \cup NearThresholdArgs
     \/ fn = "simulateCashflow" /\ args \in CashflowArgs
     \/ fn = "solveThenSimulate" /\ args \in {a \in SolverArgs : a.N >= 1}
     \/ fn = "solveEndAndBegin"
        /\ args \in {a \in SolverArgs : a.N >= 1 /\ a.timing = "end"}

CallRequiredPrincipal ==
  /\ pc = "call"
  /\ fn = "requiredPrincipalByFormula"
  /\ ret' = requiredPrincipalByFormula(args)
  /\ pc' = "done"
  /\ UNCHANGED <<fn, args, loopVars, appVars>>

CallSimulateCashflow ==
  /\ pc = "call"
  /\ fn = "simulateCashflow"
  /\ ret' = simulateCashflow(args)
  /\ pc' = "done"
  /\ UNCHANGED <<fn, args, loopVars, appVars>>

\* the solver's result fed to the simulator with the same parameters, as
\* runTests and App.rowsYears do; ret is the simulator's record sequence
SolveThenSimulate ==
  /\ pc = "call"
  /\ fn = "solveThenSimulate"
  /\ LET pv == requiredPrincipalByFormula(args)
     IN  ret' = simulateCashflow(
                  [initialPrincipal |-> pv, years |-> args.N,
                   expense0 |-> args.firstWithdrawal, r |-> args.r,
                   g |-> args.g, timing |-> args.timing])
  /\ pc' = "done"
  /\ UNCHANGED <<fn, args, loopVars, appVars>>

\* the solver called for both timings with the same other arguments, as
\* runTests does; ret holds the two results
SolveEndAndBegin ==
  /\ pc = "call"
  /\ fn = "solveEndAndBegin"
  /\ ret' = [end   |-> requiredPrincipalByFormula([args EXCEPT !.timing = "end"]),
             begin |-> requiredPrincipalByFormula([args EXCEPT !.timing = "begin"])]
  /\ pc' = "done"
  /\ UNCHANGED <<fn, args, loopVars, appVars>>

NextSolver ==
  \/ CallRequiredPrincipal
  \/ CallSimulateCashflow
  \/ SolveThenSimulate
  \/ SolveEndAndBegin

SpecSolver == InitSolver /\ [][NextSolver]_vars

----------------------------------------------------------------------------
(* Properties of the solver and of the fixed-horizon simulator *)

Returned(f) == pc = "done" /\ fn = f

Last(s) == s[Len(s)]

C2_SolverNonNegative ==
  Returned("requiredPrincipalByFormula") => Ge(ret, Zero)

\* C3: simulateCashflow over N periods returns exactly N records, even when
\* the principal is zero or negative before period N
C3_CashflowRecordCount ==
  (Returned("simulateCashflow") /\ args.years >= 0) => Len(ret) = args.years

\* a fixed-horizon run that keeps going after the principal went negative
C3_Witness ==
  /\ Returned("simulateCashflow")
  /\ args.years = MaxN
  /\ Len(ret) = MaxN
  /\ Lt(ret[1].endPrincipal, Zero)

\* C12: the solver returns 0 whenever N <= 0, whatever firstWithdrawal, r, g
\* and timing are; no formula branch is evaluated, so the rates at which a
\* branch divides by zero give 0 as well
C12_ZeroHorizon ==
  (Returned("requiredPrincipalByFormula") /\ args.N <= 0) => ret = Zero

\* a call with N = 0 at r = g = -1, where the limiting branch would be 0 / 0
C12_Witness ==
  /\ Returned("requiredPrincipalByFormula")
  /\ args.N = 0 /\ args.r = Whole(-1) /\ args.g = Whole(-1)
  /\ args.firstWithdrawal = Whole(MaxW)
  /\ ret = Zero

\* x < 1e-9 for a finite x >= 0, stated as 1/x > 10^9 by quotient and remainder
BelowThreshold(x) ==
  \/ x[1] = 0
  \/ x[2] \div x[1] > EpsDen
  \/ x[2] \div x[1] = EpsDen /\ x[2] % x[1] # 0

\* the present value of the spec for timing = end
PresentValue(a) ==
  IF BelowThreshold(Abs(Sub(a.r, a.g)))
  THEN Div(Mul(a.firstWithdrawal, Whole(a.N)), Add(One, a.r))
  ELSE Div(Mul(a.firstWithdrawal,
               Sub(One, Pow(Div(Add(One, a.g), Add(One, a.r)), a.N))),
           Sub(a.r, a.g))

\* C13: for N >= 1 and timing = end the solver returns max(0, PV), PV being
\* firstWithdrawal * N / (1 + r) when |r - g| < 1e-9 and
\* firstWithdrawal * (1 - ((1+g)/(1+r))^N) / (r - g) otherwise; the limiting
\* branch is taken exactly when |r - g| < 1e-9, so (r - g) never divides with
\* a magnitude below 1e-9
C13_EndTimingFormula ==
  (Returned("requiredPrincipalByFormula") /\ args.N >= 1 /\ args.timing = "end")
    => /\ ret = MathMax(Zero, PresentValue(args))
       /\ limitingCase(args) <=> BelowThreshold(Abs(Sub(args.r, args.g)))

\* a call with r and g exactly 1e-9 apart, which takes the closed form
C13_Witness ==
  /\ Returned("requiredPrincipalByFormula")
  /\ args.N = 1 /\ args.timing = "end" /\ args.firstWithdrawal = One
  /\ args.r = Zero /\ args.g = Num(1, EpsDen)
  /\ ~limitingCase(args)
  /\ ret = One

\* C14 as stated: for every firstWithdrawal, r, g and N >= 1 the solver's
\* result for timing = begin is (1 + r) times its result for timing = end
C14_BeginIsScaledEndAnyRate ==
  Returned("solveEndAndBegin")
    => ret.begin = Mul(Add(One, args.r), ret.end)

\* C14: for r > -1 and every firstWithdrawal, g and N >= 1 the solver's result
\* for timing = begin is (1 + r) times its result for timing = end
C14_BeginIsScaledEnd ==
  (Returned("solveEndAndBegin") /\ Gt(args.r, Whole(-1)))
    => ret.begin = Mul(Add(One, args.r), ret.end)

\* both timings solved for a positive present value at r = 1/2
C14_Witness ==
  /\ Returned("solveEndAndBegin")
  /\ args.r = Num(1, 2) /\ args.g = One /\ args.N = MaxN
  /\ args.firstWithdrawal = Whole(MaxW)
  /\ Gt(ret.end, Zero)
  /\ ret.begin = Mul(Num(3, 2), ret.end)

\* C15: for every finite firstWithdrawal, r, g and N the solver returns a
\* finite value (no division by zero happens: a division by zero yields an
\* Infinity or NaN, which then reaches the result or makes it NaN)
C15_SolverFinite ==
  Returned("requiredPrincipalByFormula") => IsFinite(ret)

----------------------------------------------------------------------------
(* A call of the run-to-depletion simulator, one loop pass per step *)

\* rates under which 200 years of projection stay within TLC's 32-bit integers
LongRunRates == {Whole(-2), Whole(-1), Zero}

DepletedArgs ==
  {a \in [initialPrincipal : Principals, expense0 : Withdrawals, r : Rates,
          g : Rates, timing : Timings, maxYears : 0..MaxN,
          hasMaxYears : BOOLEAN] :
     a.hasMaxYears
       \/ (a.maxYears = 0 /\ a.r \in LongRunRates /\ a.g \in LongRunRates)}

InitDepletion ==
  /\ AppIdle
  /\ pc = "idle"
  /\ ret = <<>>
  /\ LoopIdle
  /\ fn = "simulateUntilDepleted"
  /\ args = NoArgs

\* the call and the function's entry: rows = [], principal =
\* initialPrincipal, y = 0
DepletedEnter ==
  /\ pc = "idle"
  /\ \E a \in DepletedArgs :
       /\ args' = a
       /\ principal' = a.initialPrincipal
  /\ rows' = <<>>
  /\ y' = 0
  /\ pc' = "loop"
  /\ UNCHANGED <<fn, ret, appVars>>

\* one pass of the while loop
DepletedIterate ==
  /\ pc = "loop"
  /\ simulateUntilDepletedCond(y, maxYearsOf(args), principal)
  /\ \E rec \in {simulateUntilDepletedStep(args, y + 1, principal)} :
       /\ y' = y + 1
       /\ principal' = rec.endPrincipal
       /\ rows' = Append(rows, rec)
  /\ UNCHANGED <<fn, args, pc, ret, appVars>>

\* the loop condition fails: return rows
DepletedReturn ==
  /\ pc = "loop"
  /\ ~simulateUntilDepletedCond(y, maxYearsOf(args), principal)
  /\ ret' = rows
  /\ pc' = "done"
  /\ UNCHANGED <<fn, args, loopVars, appVars>>

NextDepletion == DepletedEnter \/ DepletedIterate \/ DepletedReturn

SpecDepletion == InitDepletion /\ [][NextDepletion]_vars

\* the loop is synchronous code: once called it runs until it returns
LiveDepletion == SpecDepletion /\ WF_vars(NextDepletion)

----------------------------------------------------------------------------
(* Properties of the run-to-depletion simulator *)

\* C4: simulateUntilDepleted terminates and never holds more than maxYears
\* records (200 when maxYears is omitted)
C4_TerminatesWithinMaxYears ==
  /\ [](pc \in {"loop", "done"} => Len(rows) <= maxYearsOf(args))
  /\ <>(pc = "done")

\* a run that never depletes and is cut off by the default ceiling of 200
C4_Witness ==
  /\ Returned("simulateUntilDepleted")
  /\ ~args.hasMaxYears
  /\ Len(ret) = DefaultMaxYears
  /\ Gt(Last(ret).endPrincipal, Zero)

----------------------------------------------------------------------------
(* Calls of the accumulation simulator *)

\* annual rates whose monthly rate r / 12 is -2, -1, 0 or 1
CompRates == {Whole(-24), Whole(-12), Zero, Whole(12)}

Balances == {Whole(p) : p \in -2..MaxP}

Monthlies == {Whole(-1), Zero, One, Whole(100)}

CompoundArgs ==
  {a \in [years : 0..MaxCompYears, principal0 : Balances, monthly : Monthlies,
          r : CompRates] :
     Gt(a.r, Zero) => 12 * a.years <= MaxGrowthMonths}

InitCompound ==
  /\ AppIdle
  /\ pc = "call"
  /\ ret = <<>>
  /\ LoopIdle
  /\ fn = "simulateCompound"
  /\ args \in CompoundArgs

CallSimulateCompound ==
  /\ pc = "call"
  /\ fn = "simulateCompound"
  /\ ret' = simulateCompound(args)
  /\ pc' = "done"
  /\ UNCHANGED <<fn, args, loopVars, appVars>>

NextCompound == CallSimulateCompound

SpecCompound == InitCompound /\ [][NextCompound]_vars

----------------------------------------------------------------------------
(* Properties of the accumulation simulator *)

\* C7: simulateCompound returns exactly `years` records for every years >= 1,
\* whatever the sign of principal0, monthly or r
C7_CompoundRecordCount ==
  (Returned("simulateCompound") /\ args.years >= 1) => Len(ret) = args.years

\* a run that goes on after its balance went negative
C7_Witness ==
  /\ Returned("simulateCompound")
  /\ args.years = MaxCompYears
  /\ Len(ret) = MaxCompYears
  /\ Lt(ret[1].endPrincipal, Zero)
  /\ Lt(args.monthly, Zero)

NonDecreasing(s) ==
  \A i \in 1..(Len(s) - 1) : Le(s[i].endPrincipal, s[i + 1].endPrincipal)

\* C9 as stated: with monthly > 0 and r >= 0, for every principal0, the
\* endPrincipal values are non-decreasing from year to year
C9_MonotoneAnyPrincipal ==
  (Returned("simulateCompound") /\ Gt(args.monthly, Zero) /\ Ge(args.r, Zero))
    => NonDecreasing(ret)

\* C9 amended: with monthly > 0, r >= 0 and principal0 >= 0 the endPrincipal
\* values are non-decreasing from year to year
C9_MonotoneFromNonNegative ==
  (/\ Returned("simulateCompound")
   /\ Gt(args.monthly, Zero) /\ Ge(args.r, Zero)
   /\ Ge(args.principal0, Zero))
    => NonDecreasing(ret)

\* two years of growth at a positive rate
C9_Witness ==
  /\ Returned("simulateCompound")
  /\ Gt(args.monthly, Zero) /\ Gt(args.r, Zero) /\ Ge(args.principal0, Zero)
  /\ Len(ret) >= 2
  /\ Lt(ret[1].endPrincipal, ret[2].endPrincipal)

\* the balance after k more months: balance <- balance * (1 + r/12) + monthly,
\* k times
RECURSIVE AfterMonths(_, _)
AfterMonths(balance, k) ==
  IF k = 0 THEN balance
  ELSE AfterMonths(Add(Mul(balance, Add(One, Div(args.r, Whole(12)))),
                       args.monthly), k - 1)

\* the balance year i starts from
BalanceBefore(i) == IF i = 1 THEN args.principal0 ELSE ret[i - 1].endPrincipal

\* C19: every record of simulateCompound has expense = 0 and growth =
\* endPrincipal, and the endPrincipal of year y is the balance of the year
\* before (principal0 for year 1) after balance <- balance * (1 + r/12) +
\* monthly applied exactly 12 times
C19_TwelveMonthsPerRecord ==
  Returned("simulateCompound") =>
    \A i \in 1..Len(ret) :
      /\ ret[i].expense = Zero
      /\ ret[i].growth = ret[i].endPrincipal
      /\ ret[i].endPrincipal = AfterMonths(BalanceBefore(i), 12)

\* a second year compounding the balance of the first at a positive rate, with
\* a contribution every month
C19_Witness ==
  /\ Returned("simulateCompound")
  /\ Len(ret) = 2
  /\ Gt(args.r, Zero) /\ Gt(args.monthly, Zero)
  /\ ret[1].endPrincipal # Zero
  /\ ret[2].growth = AfterMonths(ret[1].endPrincipal, 12)
  /\ ret[2].growth # AfterMonths(ret[1].endPrincipal, 11)

----------------------------------------------------------------------------
(* Calls of the CSV export *)

Chars == {"a", Comma, Quote, Newline}

\* the texts of at most n characters
RECURSIVE TextsUpTo(_)
TextsUpTo(n) ==
  IF n = 0 THEN {<<>>}
  ELSE TextsUpTo(n - 1)
         \cup {Append(s, c) : s \in {t \in TextsUpTo(n - 1) : Len(t) = n - 1},
                              c \in Chars}

Texts == TextsUpTo(MaxStrLen)

CellNumbers == {0, 12, -3}

\* the table runTests serialises
SelfTestTable ==
  << <<TextCell(<<"a">>), TextCell(<<"b">>)>>,
     <<NumberCell(1), NumberCell(2)>>, <<NumberCell(3), NumberCell(4)>> >>

\* tables as the callers build them: a header row of texts, then data rows of
\* numbers and texts
Tables ==
  {<<>>, SelfTestTable}
    \cup {<< <<TextCell(s)>> >> : s \in Texts}
    \cup {<< <<TextCell(s), TextCell(t)>> >> : s \in Texts, t \in Texts}
    \cup {<< <<TextCell(s)>>, <<TextCell(t), NumberCell(n)>> >> :
            s \in Texts, t \in Texts, n \in CellNumbers}
    \cup {<< <<TextCell(s), TextCell(t)>>,
             <<NumberCell(n), NumberCell(n + 1)>>,
             <<TextCell(t), NumberCell(n)>> >> :
            s \in Texts, t \in Texts, n \in CellNumbers}

InitCSV ==
  /\ AppIdle
  /\ pc = "call"
  /\ ret = <<>>
  /\ LoopIdle
  /\ fn = "buildCSV"
  /\ args \in [rows : Tables]

CallBuildCSV ==
  /\ pc = "call"
  /\ fn = "buildCSV"
  /\ ret' = buildCSV(args.rows)
  /\ pc' = "done"
  /\ UNCHANGED <<fn, args, loopVars, appVars>>

NextCSV == CallBuildCSV

SpecCSV == InitCSV /\ [][NextCSV]_vars

----------------------------------------------------------------------------
(* Properties of the CSV export *)

\* a field as the escaping rule writes it: a text in double quotes with each
\* inner double quote doubled, a number bare
EscapedField(c) ==
  IF c.type = "string"
  THEN <<Quote>> \o DoubleQuotes(c.text) \o <<Quote>>
  ELSE NumberToString(c.value)

EscapedLine(r) == Join([i \in 1..Len(r) |-> EscapedField(r[i])], Comma)

\* C10: in the output of buildCSV every textual field of every row, the
\* header row included, is quoted with inner quotes doubled, and every
\* numeric field is unquoted
C10_EveryFieldEscaped ==
  Returned("buildCSV") =>
    ret = Join([i \in 1..Len(args.rows) |-> EscapedLine(args.rows[i])], Newline)

\* s.split(sep): the pieces of s between the occurrences of the character sep
RECURSIVE Split(_, _)
Split(s, sep) ==
  IF s = <<>> THEN << <<>> >>
  ELSE LET rest == Split(Tail(s), sep)
       IN  IF Head(s) = sep THEN << <<>> >> \o rest
           ELSE << <<Head(s)>> \o rest[1] >> \o Tail(rest)

HasNewline(c) == c.type = "string" /\ \E i \in 1..Len(c.text) : c.text[i] = Newline

NoNewlineIn(table) ==
  \A i \in 1..Len(table) : \A j \in 1..Len(table[i]) : ~HasNewline(table[i][j])

\* C11 as stated: for every non-empty list of k rows the output of buildCSV,
\* split on the newline character, has exactly k lines
C11_LineCountAnyRows ==
  (Returned("buildCSV") /\ args.rows # <<>>)
    => Len(Split(ret, Newline)) = Len(args.rows)

\* C11: for a non-empty list of k rows none of whose texts holds a newline
\* character the output of buildCSV, split on the newline character, has
\* exactly k lines
C11_LineCount ==
  (Returned("buildCSV") /\ args.rows # <<>> /\ NoNewlineIn(args.rows))
    => Len(Split(ret, Newline)) = Len(args.rows)

\* the table of the self-test, [["a","b"],[1,2],[3,4]], written in 3 lines
C11_Witness ==
  /\ Returned("buildCSV")
  /\ args.rows = SelfTestTable
  /\ Split(ret, Newline) = << <<Quote, "a", Quote, Comma, Quote, "b", Quote>>,
                              <<"1", Comma, "2">>, <<"3", Comma, "4">> >>

----------------------------------------------------------------------------
(* The App component *)

\* toPct and nval take the Number the text converts to: a non-finite one
\* becomes 0 (toPct) or the default d (nval)
toPct(x) == IF IsFinite(x) THEN x ELSE Zero

nval(x, d) == IF IsFinite(x) THEN x ELSE d

\* the engine's loops count whole years: the integer a whole Number stands for
WholeOf(x) == x[1] \div x[2]

\* the body of the weightedReturnPct memo
weightedReturnPct(u) ==
  LET wETF  == Div(toPct(u.pctETF), Whole(100))
      wBond == Div(toPct(u.pctBond), Whole(100))
      wCash == Div(toPct(u.pctCash), Whole(100))
      v     == Div(Add(Add(Mul(wETF, toPct(u.retETF)), Mul(wBond, toPct(u.retBond))),
                       Mul(wCash, toPct(u.retCash))), Whole(100))
  IN  Mul(v, Whole(100))

nominalR(wr) == Div(wr, Whole(100))

inflationR(u) == Div(toPct(u.inflationPct), Whole(100))

\* the bodies of the other memos; r and g are nominalR and inflationR of the
\* render, np the neededPrincipal of the render
neededPrincipal(u, r, g) ==
  IF u.mode # "years" THEN Zero
  ELSE IF ~IsFinite(r) \/ ~IsFinite(g) \/ ~IsFinite(u.years) \/ Le(u.years, Zero)
       THEN Zero
  ELSE requiredPrincipalByFormula([firstWithdrawal |-> u.annualExpense, r |-> r,
                                   g |-> g, N |-> WholeOf(u.years),
                                   timing |-> u.timing])

rowsYears(u, r, g, np) ==
  IF u.mode # "years" THEN <<>>
  ELSE IF ~IsFinite(np) THEN <<>>
  ELSE simulateCashflow([initialPrincipal |-> np, years |-> WholeOf(u.years),
                         expense0 |-> u.annualExpense, r |-> r, g |-> g,
                         timing |-> u.timing])

rowsPrincipal(u, r, g) ==
  IF u.mode # "principal" THEN <<>>
  ELSE LET p0 == u.initialPrincipalInput
       IN  IF ~IsFinite(p0) \/ Le(p0, Zero) THEN <<>>
           ELSE simulateUntilDepleted([initialPrincipal |-> p0,
                                       expense0 |-> u.annualExpense, r |-> r,
                                       g |-> g, timing |-> u.timing,
                                       hasMaxYears |-> TRUE, maxYears |-> 200])

\* the rowsCompound memo computing its sequence in every mode
rowsCompoundAnyMode(u, r) ==
  simulateCompound([years |-> WholeOf(u.compYears), principal0 |-> u.compInitial,
                    monthly |-> u.compMonthly, r |-> r])

rowsCompound(u, r) ==
  IF u.mode # "compound" THEN <<>>
  ELSE simulateCompound([years |-> WholeOf(u.compYears), principal0 |-> u.compInitial,
                         monthly |-> u.compMonthly, r |-> r])

\* useMemo with an empty dependency list: the value of the first render is kept
useMemoComputedOnce(cell, deps, value) ==
  IF cell.deps # <<"unset">> THEN cell ELSE [deps |-> deps, value |-> value]

\* useMemo: the cell keeps its value while its dependencies are unchanged
useMemo(cell, deps, value) ==
  IF cell.deps = deps THEN cell ELSE [deps |-> deps, value |-> value]

\* a cell before the first render
NoCell == [deps |-> <<"unset">>, value |-> <<>>]

NoMemo ==
  [weightedReturnPct |-> NoCell, neededPrincipal |-> NoCell, rowsYears |-> NoCell,
   rowsPrincipal |-> NoCell, rowsCompound |-> NoCell]

\* one render of App under the state u, from the memo cells m of the last one.
\* The render runs top to bottom: weightedReturnPct (wr), then nominalR and
\* inflationR (r, g), then neededPrincipal (np), then the three sequences.
Render(u, m) ==
  Only({
    Only({
      Only({
        [weightedReturnPct |-> wr,
         neededPrincipal |-> np,
         rowsYears |->
           useMemo(m.rowsYears,
                   <<u.mode, np.value, u.years, u.annualExpense, r, g, u.timing>>,
                   rowsYears(u, r, g, np.value)),
         rowsPrincipal |->
           useMemo(m.rowsPrincipal,
                   <<u.mode, u.initialPrincipalInput, u.annualExpense, r, g, u.timing>>,
                   rowsPrincipal(u, r, g)),
         rowsCompound |->
           useMemo(m.rowsCompound,
                   <<u.mode, u.compYears, u.compInitial, u.compMonthly, r>>,
                   rowsCompound(u, r))] :
        np \in {useMemo(m.neededPrincipal,
                        <<u.mode, u.annualExpense, r, g, u.years, u.timing>>,
                        neededPrincipal(u, r, g))}}) :
      r \in {nominalR(wr.value)}, g \in {inflationR(u)}}) :
    wr \in {useMemo(m.weightedReturnPct,
                    <<u.pctETF, u.pctBond, u.pctCash, u.retETF, u.retBond, u.retCash>>,
                    weightedReturnPct(u))}})

\* what the render shows
shownRows ==
  IF ui.mode = "years" THEN memo.rowsYears.value
  ELSE IF ui.mode = "principal" THEN memo.rowsPrincipal.value
  ELSE memo.rowsCompound.value

finalBalance == IF Len(shownRows) > 0 THEN Last(shownRows).endPrincipal ELSE Zero

yearsSupported ==
  IF ui.mode = "principal" THEN Whole(Len(memo.rowsPrincipal.value)) ELSE ui.years

\* What is typed into the inputs.  A field's text converts to one of these
\* Numbers; the values are small so that every run the App starts from them
\* stays within TLC's 32-bit integers, and whole where the engine counts
\* years.  Returns and inflation are in percent: -1200 gives r = -12 and
\* r/12 = -1, -100 gives g = -1.
Modes == {"years", "principal", "compound"}

TypedYears == {NaN, PosInf, Whole(-1), Zero, Whole(2)}

TypedPrincipal == {NaN, PosInf, Whole(-1), Zero, Whole(2)}

TypedExpense == {NaN, Zero, One}

TypedInflation == {NaN, Zero, Whole(-100)}

TypedShare == {NaN, Zero, Whole(100)}

TypedReturn == {NaN, Zero, Whole(-1200)}

TypedIdle == {NaN, Zero}

TypedCompYears == {NaN, Zero, Whole(2)}

TypedCompMonthly == {NaN, Zero, One}

\* the useState values of the first render, with the defaults of the code
\* (30 years, 2600000, 100000, 4 %, 50/40/10 at 7/3/0 %, 30 years of 10000 + 500)
\* replaced by typed values above
InitialState ==
  [mode |-> "years", years |-> Whole(2), initialPrincipalInput |-> Whole(2),
   annualExpense |-> One, inflationPct |-> Zero, timing |-> "end",
   pctETF |-> Whole(100), pctBond |-> Zero, pctCash |-> Zero,
   retETF |-> Zero, retBond |-> Zero, retCash |-> Zero,
   compYears |-> Whole(2), compInitial |-> Zero, compMonthly |-> One]

InitApp ==
  /\ fn = "App" /\ args = NoArgs /\ pc = "mounted" /\ ret = <<>>
  /\ LoopIdle
  /\ ui = InitialState
  /\ memo = Render(InitialState, NoMemo)

\* the component is mounted
Mounted == fn = "App"

\* a state setter followed by the render it causes
Update(u) ==
  \E next \in {u} :
    /\ ui' = next
    /\ \E cells \in {Render(next, memo)} : memo' = cells
    /\ UNCHANGED <<callVars, loopVars>>

\* the onChange handlers; an input takes events only while its mode renders it
SetMode ==
  /\ Mounted
  /\ \E m \in Modes : Update([ui EXCEPT !.mode = m])

SetTiming ==
  /\ Mounted /\ ui.mode # "compound"
  /\ \E t \in Timings : Update([ui EXCEPT !.timing = t])

SetYears ==
  /\ Mounted /\ ui.mode = "years"
  /\ \E v \in TypedYears : Update([ui EXCEPT !.years = nval(v, Zero)])

SetInitialPrincipalInput ==
  /\ Mounted /\ ui.mode = "principal"
  /\ \E v \in TypedPrincipal :
       Update([ui EXCEPT !.initialPrincipalInput = nval(v, Zero)])

SetAnnualExpense ==
  /\ Mounted /\ ui.mode # "compound"
  /\ \E v \in TypedExpense : Update([ui EXCEPT !.annualExpense = nval(v, Zero)])

SetInflationPct ==
  /\ Mounted /\ ui.mode # "compound"
  /\ \E v \in TypedInflation : Update([ui EXCEPT !.inflationPct = nval(v, Zero)])

SetCompYears ==
  /\ Mounted /\ ui.mode = "compound"
  /\ \E v \in TypedCompYears : Update([ui EXCEPT !.compYears = nval(v, Zero)])

SetCompInitial ==
  /\ Mounted /\ ui.mode = "compound"
  /\ \E v \in TypedIdle : Update([ui EXCEPT !.compInitial = nval(v, Zero)])

SetCompMonthly ==
  /\ Mounted /\ ui.mode = "compound"
  /\ \E v \in TypedCompMonthly : Update([ui EXCEPT !.compMonthly = nval(v, Zero)])

SetPctETF ==
  /\ Mounted
  /\ \E v \in TypedShare : Update([ui EXCEPT !.pctETF = nval(v, Zero)])

SetPctBond ==
  /\ Mounted
  /\ \E v \in TypedIdle : Update([ui EXCEPT !.pctBond = nval(v, Zero)])

SetPctCash ==
  /\ Mounted
  /\ \E v \in TypedIdle : Update([ui EXCEPT !.pctCash = nval(v, Zero)])

SetRetETF ==
  /\ Mounted
  /\ \E v \in TypedReturn : Update([ui EXCEPT !.retETF = nval(v, Zero)])

SetRetBond ==
  /\ Mounted
  /\ \E v \in TypedIdle : Update([ui EXCEPT !.retBond = nval(v, Zero)])

SetRetCash ==
  /\ Mounted
  /\ \E v \in TypedIdle : Update([ui EXCEPT !.retCash = nval(v, Zero)])

NextApp ==
  \/ SetMode
  \/ SetTiming
  \/ SetYears
  \/ SetInitialPrincipalInput
  \/ SetAnnualExpense
  \/ SetInflationPct
  \/ SetCompYears
  \/ SetCompInitial
  \/ SetCompMonthly
  \/ SetPctETF
  \/ SetPctBond
  \/ SetPctCash
  \/ SetRetETF
  \/ SetRetBond
  \/ SetRetCash

SpecApp == InitApp /\ [][NextApp]_vars

----------------------------------------------------------------------------
(* The depletion model from both of its entries: a direct call of
   simulateUntilDepleted, and the principal mode of App *)

\* a starting principal may also be a non-finite Number
DepletedCallArgs ==
  DepletedArgs \cup
  {[a EXCEPT !.initialPrincipal = x] :
     a \in {b \in DepletedArgs : b.initialPrincipal = Zero /\ b.expense0 = One},
     x \in {NaN, PosInf, NegInf}}

InitDepletedCall ==
  /\ AppIdle
  /\ LoopIdle
  /\ fn = "simulateUntilDepleted"
  /\ args \in DepletedCallArgs
  /\ pc = "call"
  /\ ret = <<>>

CallSimulateUntilDepleted ==
  /\ pc = "call" /\ fn = "simulateUntilDepleted"
  /\ ret' = simulateUntilDepleted(args)
  /\ pc' = "done"
  /\ UNCHANGED <<fn, args, loopVars, appVars>>

InitPrincipal == InitDepletedCall \/ InitApp

NextPrincipal == CallSimulateUntilDepleted \/ NextApp

SpecPrincipal == InitPrincipal /\ [][NextPrincipal]_vars

NonFiniteOrNonPositive(x) == ~IsFinite(x) \/ Le(x, Zero)

\* C5, at the call: simulateUntilDepleted returns no records when
\* initialPrincipal <= 0 (a record is pushed in every iteration, so no records
\* is zero iterations)
C5_CallNoRecords ==
  (Returned("simulateUntilDepleted") /\ Le(args.initialPrincipal, Zero))
    => ret = <<>>

\* C5, in App: in principal mode, while the principal held is non-finite or
\* <= 0, the sequence shown and the number of years supported are empty and 0
C5_AppNoRecords ==
  (Mounted /\ ui.mode = "principal"
     /\ NonFiniteOrNonPositive(ui.initialPrincipalInput))
    => (memo.rowsPrincipal.value = <<>> /\ shownRows = <<>>
          /\ yearsSupported = Zero /\ finalBalance = Zero)

\* C5, in App: typing a principal that is non-finite or <= 0 into the
\* principal input leaves an empty sequence
C5_AppEnteredNoRecords ==
  (/\ Mounted /\ ui.mode = "principal"
   /\ \E v \in TypedPrincipal :
        /\ NonFiniteOrNonPositive(v)
        /\ ui' = [ui EXCEPT !.initialPrincipalInput = nval(v, Zero)])
    => (memo.rowsPrincipal.value' = <<>> /\ shownRows' = <<>>)

\* C5: in the depletion model a starting principal that is non-finite or <= 0
\* yields an empty record sequence with zero iterations, at the call of
\* simulateUntilDepleted (initialPrincipal <= 0) and in the principal mode of
\* App (the entered principal non-finite or <= 0)
C5_NoPrincipalNoRecords ==
  /\ [](C5_CallNoRecords /\ C5_AppNoRecords)
  /\ [][C5_AppEnteredNoRecords]_vars

\* App in principal mode after a non-finite principal was typed over a positive
\* one: the principal held is 0 and nothing is shown
C5_Witness ==
  /\ Mounted /\ ui.mode = "principal"
  /\ ui.initialPrincipalInput = nval(PosInf, Zero)
  /\ Gt(ui.annualExpense, Zero)
  /\ shownRows = <<>>


----------------------------------------------------------------------------
(* The three simulators, each called once *)

InitCashflowCall ==
  /\ AppIdle
  /\ LoopIdle
  /\ fn = "simulateCashflow"
  /\ args \in CashflowArgs
  /\ pc = "call"
  /\ ret = <<>>

\* both withdrawal simulators called with the same parameters, maxYears and
\* years both args.maxYears
InitDepletedAndCashflow ==
  /\ AppIdle
  /\ LoopIdle
  /\ fn = "depletedAndCashflow"
  /\ args \in {a \in DepletedCallArgs : a.hasMaxYears}
  /\ pc = "call"
  /\ ret = <<>>

CallDepletedAndCashflow ==
  /\ pc = "call" /\ fn = "depletedAndCashflow"
  /\ ret' = [depleted |-> simulateUntilDepleted(args),
             cashflow |-> simulateCashflow(
                            [initialPrincipal |-> args.initialPrincipal,
                             years |-> args.maxYears,
                             expense0 |-> args.expense0, r |-> args.r,
                             g |-> args.g, timing |-> args.timing])]
  /\ pc' = "done"
  /\ UNCHANGED <<fn, args, loopVars, appVars>>

\* the parameters of a run made under both timings; the starting principal may
\* be a non-finite Number
BothTimingsArgs ==
  [initialPrincipal : Principals \cup {NaN, PosInf, NegInf},
   expense0 : Withdrawals, r : Rates, g : Rates, years : 0..MaxN]

\* the parameters a with the timing t, for either withdrawal simulator
WithTiming(a, t) ==
  [initialPrincipal |-> a.initialPrincipal, years |-> a.years,
   maxYears |-> a.years, hasMaxYears |-> TRUE, expense0 |-> a.expense0,
   r |-> a.r, g |-> a.g, timing |-> t]

InitBothTimings ==
  /\ AppIdle
  /\ LoopIdle
  /\ fn = "bothTimings"
  /\ args \in BothTimingsArgs
  /\ pc = "call"
  /\ ret = <<>>

\* both withdrawal simulators called with timing begin and with timing end on
\* otherwise equal parameters
CallBothTimings ==
  /\ pc = "call" /\ fn = "bothTimings"
  /\ ret' = [cashflowBegin |-> simulateCashflow(WithTiming(args, "begin")),
             cashflowEnd |-> simulateCashflow(WithTiming(args, "end")),
             depletedBegin |-> simulateUntilDepleted(WithTiming(args, "begin")),
             depletedEnd |-> simulateUntilDepleted(WithTiming(args, "end"))]
  /\ pc' = "done"
  /\ UNCHANGED <<fn, args, loopVars, appVars>>

InitSimulators ==
  InitCashflowCall \/ InitDepletedCall \/ InitCompound
    \/ InitDepletedAndCashflow \/ InitBothTimings

NextSimulators ==
  \/ CallSimulateCashflow
  \/ CallSimulateUntilDepleted
  \/ CallSimulateCompound
  \/ CallDepletedAndCashflow
  \/ CallBothTimings

SpecSimulators == InitSimulators /\ [][NextSimulators]_vars

\* the principal a period opens with: the starting principal in period 1, the
\* endPrincipal of the record before it afterwards
Opening(i) == IF i = 1 THEN args.initialPrincipal ELSE ret[i - 1].endPrincipal

\* the withdrawal of period i
Withdrawal(i) == Mul(args.expense0, Pow(Add(One, args.g), i - 1))

\* the record at position i carries the per-period update of the recurrence
PeriodUpdate(i) ==
  /\ ret[i].expense = Withdrawal(i)
  /\ args.timing = "end" =>
       /\ ret[i].growth = Mul(Opening(i), args.r)
       /\ ret[i].endPrincipal =
            Sub(Add(Opening(i), ret[i].growth), ret[i].expense)
  /\ args.timing = "begin" =>
       /\ ret[i].growth = Mul(Sub(Opening(i), ret[i].expense), args.r)
       /\ ret[i].endPrincipal =
            Add(Sub(Opening(i), ret[i].expense), ret[i].growth)

\* C16: every record returned by simulateCashflow and by simulateUntilDepleted
\* has, in its period y, expense = expense0 * (1+g)^(y-1); with timing end
\* growth = opening principal * r and endPrincipal = opening + growth -
\* expense; with timing begin growth = (opening - expense) * r and
\* endPrincipal = opening - expense + growth
C16_PeriodUpdate ==
  (Returned("simulateCashflow") \/ Returned("simulateUntilDepleted"))
    => \A i \in 1..Len(ret) : PeriodUpdate(i)

\* simulateUntilDepleted has returned three periods of a growing withdrawal
\* taken at the beginning of the period
C16_Witness ==
  /\ Returned("simulateUntilDepleted")
  /\ args.timing = "begin"
  /\ args.initialPrincipal = Num(3, 1)
  /\ Len(ret) = 3
  /\ args.g = Num(1, 2)
  /\ args.r = Num(1, 2)
  /\ ret[3].expense = Num(9, 4)

\* the positions of the records of s whose endPrincipal is <= 0
DepletedAt(s) == {i \in 1..Len(s) : Le(s[i].endPrincipal, Zero)}

\* the positions of the records of s whose endPrincipal is not > 0: <= 0 or NaN
NotPositiveAt(s) == {i \in 1..Len(s) : ~Gt(s[i].endPrincipal, Zero)}

\* the prefix of s ending at the least position of stops, all of s when stops
\* is empty
PrefixToFirst(s, stops) ==
  IF stops = {} THEN s
  ELSE SubSeq(s, 1, CHOOSE i \in stops : \A j \in stops : i <= j)

C18_YearIsPosition ==
  (\/ Returned("simulateCashflow")
   \/ Returned("simulateUntilDepleted")
   \/ Returned("simulateCompound"))
    => \A i \in 1..Len(ret) : ret[i].year = i

\* simulateCashflow has returned the years 1, 2, 3
C18_Witness ==
  /\ Returned("simulateCashflow")
  /\ Len(ret) = 3
  /\ <<ret[1].year, ret[2].year, ret[3].year>> = <<1, 2, 3>>

\* the witnesses of the other two simulators
C18_WitnessDepleted ==
  /\ Returned("simulateUntilDepleted")
  /\ Len(ret) = 3 /\ ret[3].year = 3

C18_WitnessCompound ==
  /\ Returned("simulateCompound")
  /\ Len(ret) = 2 /\ ret[2].year = 2

----------------------------------------------------------------------------
(* What App shows against the engine run afresh *)

\* the engine run on the parameter values u with nothing memoised: the
\* required principal and the record sequence of the mode
Fresh(u) ==
  Only({
    Only({[neededPrincipal |-> np,
           rows |-> IF u.mode = "years" THEN rowsYears(u, r, g, np)
                    ELSE IF u.mode = "principal" THEN rowsPrincipal(u, r, g)
                    ELSE rowsCompound(u, r)] :
          np \in {neededPrincipal(u, r, g)}}) :
    r \in {nominalR(weightedReturnPct(u))}, g \in {inflationR(u)}})

\* C20: after any sequence of parameter changes in App the record sequence
\* shown and the required principal shown are those the engine returns when
\* run afresh on the current parameter values
C20_NoStaleResults ==
  Mounted =>
    \E fresh \in {Fresh(ui)} :
      /\ shownRows = fresh.rows
      /\ memo.neededPrincipal.value = fresh.neededPrincipal

\* years mode after the expense was changed to 0: the required principal of
\* the first render, memoised under the expense 1, has been replaced
C20_Witness ==
  /\ Mounted
  /\ ui.mode = "years"
  /\ ui.annualExpense = Zero
  /\ ui.annualExpense # InitialState.annualExpense
  /\ memo.neededPrincipal.value = Zero
  /\ Fresh(InitialState).neededPrincipal # Zero
  /\ Len(shownRows) = 2
  /\ shownRows # Fresh(InitialState).rows

----------------------------------------------------------------------------
(* The years mode of App without a horizon *)

\* C21, the state held: in years mode, while the horizon held is non-finite or
\* <= 0, the required principal is 0 and no record is shown
C21_HeldNoHorizon ==
  (Mounted /\ ui.mode = "years" /\ NonFiniteOrNonPositive(ui.years))
    => /\ memo.neededPrincipal.value = Zero
       /\ memo.rowsYears.value = <<>>
       /\ shownRows = <<>>

\* C21, the entry: typing a horizon that is non-finite or <= 0 into the years
\* input leaves a required principal of 0 and an empty sequence
C21_EnteredNoHorizon ==
  (/\ Mounted /\ ui.mode = "years"
   /\ \E v \in TypedYears :
        /\ NonFiniteOrNonPositive(v)
        /\ ui' = [ui EXCEPT !.years = nval(v, Zero)])
    => (memo.neededPrincipal.value' = Zero /\ shownRows' = <<>>)

\* C21: in years mode, when the horizon entered in App is non-finite or <= 0,
\* the required principal shown is 0 and the record sequence is empty
C21_NoHorizonNoRecords ==
  [](C21_HeldNoHorizon) /\ [][C21_EnteredNoHorizon]_vars

\* a negative horizon typed over the horizon 2 while the expense is positive
\* and the return 0: the principal 2 and the two records have gone
C21_Witness ==
  /\ Mounted /\ ui.mode = "years"
  /\ ui.years = Whole(-1)
  /\ Gt(ui.annualExpense, Zero)
  /\ memo.neededPrincipal.value = Zero
  /\ shownRows = <<>>
  /\ Fresh(InitialState).neededPrincipal = Whole(2)
  /\ Len(Fresh(InitialState).rows) = 2

BeginEndRates ==
  Ge(args.expense0, Zero) /\ Ge(args.r, Zero) /\ Ge(args.g, Whole(-1))

\* every year's endPrincipal with timing begin is <= that with timing end, and
\* simulateUntilDepleted returns no more records with begin than with end
BeginAtMostEnd ==
  /\ Len(ret.cashflowBegin) = Len(ret.cashflowEnd)
  /\ \A i \in 1..Len(ret.cashflowBegin) :
       Le(ret.cashflowBegin[i].endPrincipal, ret.cashflowEnd[i].endPrincipal)
  /\ Len(ret.depletedBegin) <= Len(ret.depletedEnd)

----------------------------------------------------------------------------
(* One mode at a time *)

\* the sequence of the mode m held by the memo cells
SequenceOf(m) ==
  IF m = "years" THEN memo.rowsYears.value
  ELSE IF m = "principal" THEN memo.rowsPrincipal.value
  ELSE memo.rowsCompound.value

\* C24: in every reachable state of App the record sequences of the modes
\* other than the selected one are empty, the rows shown are the selected
\* mode's sequence, and the years supported shown in principal mode are the
\* number of records of the depletion sequence
C24_ModeExclusivity ==
  Mounted =>
    /\ \A m \in Modes \ {ui.mode} : SequenceOf(m) = <<>>
    /\ shownRows = SequenceOf(ui.mode)
    /\ ui.mode = "principal" =>
         yearsSupported = Whole(Len(memo.rowsPrincipal.value))

\* principal mode, entered from the years mode whose two records are no longer
\* held: the depletion sequence is shown and counted
C24_Witness ==
  /\ Mounted /\ ui.mode = "principal"
  /\ Len(memo.rowsPrincipal.value) > 0
  /\ shownRows = memo.rowsPrincipal.value
  /\ yearsSupported = Whole(Len(shownRows))
  /\ Len(Fresh(InitialState).rows) = 2
  /\ memo.rowsYears.value = <<>>
  /\ memo.rowsCompound.value = <<>>
=============================================================================
